---- MODULE Spec2Model ----
(***************************************************************************)
(* ASN prefix sync worker (src/worker.js): a prefix table of a D1 store is *)
(* reconciled against a remote Gateway list.                               *)
(*                                                                         *)
(* Strings the code inspects character by character (the ASN, a prefix)    *)
(* are sequences of one-character strings, so the two regular expressions  *)
(* of the code are computed, not assumed.  One action is one I/O (a store  *)
(* statement, an HTTP request with its response, the retry delay) followed *)
(* by the synchronous code up to the next await.                           *)
(***************************************************************************)
EXTENDS Integers, Sequences, FiniteSets, TLC

\* ------------------------------------------------------------------ bounds
MaxRows == 2       \* longest table content enumerated over SmallPrefixes
MaxRuns == 2       \* invocations in one behaviour
Max429  == 1       \* rate-limited responses answered to one invocation
BigN    == 120     \* rows of the large table content

\* ------------------------------------------------------- program constants
batchSize == 50          \* syncASN: const batchSize = 50
insertBatchSize == 100   \* updateSyncedPrefixes: const batchSize = 100

Procs == {1, 2}          \* invocation slots of the runtime

\* ------------------------------------------------------------- characters
Digits == {"0", "1", "2", "3", "4", "5", "6", "7", "8", "9"}
HexOrColon == Digits \cup {"a", "b", "c", "d", "e", "f",
                           "A", "B", "C", "D", "E", "F", ":"}

DigitChar(d) == <<"0", "1", "2", "3", "4", "5", "6", "7", "8", "9">>[d + 1]

RECURSIVE Decimal(_)
Decimal(n) == IF n < 10 THEN <<DigitChar(n)>>
              ELSE Decimal(n \div 10) \o <<DigitChar(n % 10)>>

Range(s) == {s[k] : k \in 1..Len(s)}
Min(a, b) == IF a < b THEN a ELSE b

AllIn(s, chars) == \A k \in 1..Len(s) : s[k] \in chars

\* ------------------------------------------------------------- the ASN
\* /^AS\d+$/ (no flags: $ is the end of the input, \d is [0-9])
TestASN(s) ==
    /\ Len(s) >= 3
    /\ s[1] = "A"
    /\ s[2] = "S"
    /\ AllIn(SubSeq(s, 3, Len(s)), Digits)

\* The asn parameter: url.searchParams.get("asn") is null when absent.
Asn(text) == [present |-> TRUE, text |-> text]
NoAsn == [present |-> FALSE, text |-> <<>>]

\* RegExp.prototype.test coerces its argument with ToString.
AsnToString(asn) == IF asn.present THEN asn.text ELSE <<"n", "u", "l", "l">>

\* !asn : null and the empty string are falsy
Falsy(asn) == ~asn.present \/ asn.text = <<>>

\* fetch, line 6: the request is answered 400
fetchRejects(asn) == Falsy(asn) \/ ~TestASN(AsnToString(asn))

\* the pattern without its end anchor, /^AS\d+/
syncASNRejectsUnanchored(asn) ==
    LET s == AsnToString(asn)
    IN  ~(Len(s) >= 3 /\ s[1] = "A" /\ s[2] = "S" /\ s[3] \in Digits)

\* syncASN, line 21: throw new Error("Invalid ASN format")
syncASNRejects(asn) == ~TestASN(AsnToString(asn))

AS1 == <<"A", "S", "1">>
AS2 == <<"A", "S", "2">>

AsnInputs ==
    { Asn(AS1), Asn(AS2), NoAsn, Asn(<<>>),
      Asn(<<"A", "S">>), Asn(<<"a", "s", "1">>),
      Asn(<<"A", "S", "1", ";">>), Asn(<<"x", "A", "S", "1">>),
      Asn(<<"A", "S", "1", "\n">>) }

\* ------------------------------------------------------------- prefixes
\* /^(?:(?:[0-9]{1,3}\.){3}[0-9]{1,3}\/[0-9]{1,2}|(?:[0-9a-fA-F:]+)\/[0-9]{1,3})$/
\* Neither address alternative admits "/", so the last "/" splits the string.
\* [0-9]{1,3}\. starting at position from: the positions its "." may take
DotAfterGroup(a, from) ==
    {d \in (from + 1)..Min(from + 3, Len(a)) :
        a[d] = "." /\ \A m \in from..(d - 1) : a[m] \in Digits}

IsDottedQuad(a) ==
    \E i \in DotAfterGroup(a, 1) :
        \E j \in DotAfterGroup(a, i + 1) :
            \E k \in DotAfterGroup(a, j + 1) :
                /\ Len(a) - k \in 1..3
                /\ \A m \in (k + 1)..Len(a) : a[m] \in Digits

isValidCIDR(prefix) ==
    \E s \in 1..Len(prefix) :
        /\ prefix[s] = "/"
        /\ LET addr == SubSeq(prefix, 1, s - 1)
               bits == SubSeq(prefix, s + 1, Len(prefix))
           IN  /\ AllIn(bits, Digits)
               /\ \/ IsDottedQuad(addr) /\ Len(bits) \in 1..2
                  \/ Len(addr) >= 1 /\ AllIn(addr, HexOrColon) /\ Len(bits) \in 1..3

\* "<n>.0.0.0/8"
Pfx(n) == Decimal(n) \o <<".", "0", ".", "0", ".", "0", "/", "8">>

V4 == Pfx(1)
V6 == <<":", ":", "/", "0">>
NoLen == <<"1", ".", "0", ".", "0", ".", "0">>      \* "1.0.0.0": no prefix length

SmallPrefixes == {V4, V6, NoLen}

BigSeq(lo, hi) == [k \in 1..(hi - lo + 1) |-> Pfx(lo + k - 1)]

\* ------------------------------------------------------------- environment
\* env: which bindings and variables are set
FullEnv == [DB |-> TRUE, ACCOUNT_ID |-> TRUE, LIST_ID |-> TRUE,
            API_EMAIL |-> TRUE, API_KEY |-> TRUE]
Envs == {FullEnv} \cup {[FullEnv EXCEPT ![k] = FALSE] : k \in DOMAIN FullEnv}

\* What a caller passes: every ASN with the full environment, and the ASNs that
\* pass the format check with every environment.
Inputs == (AsnInputs \X {FullEnv}) \cup ({Asn(AS1), Asn(AS2)} \X Envs)

\* The calls enumerated: fetch with every input; syncASN called directly with
\* every input but the one that runs a whole sync, which continues exactly as
\* the call from fetch does.
Calls == ({"fetch"} \X Inputs) \cup ({"direct"} \X (Inputs \ {<<Asn(AS1), FullEnv>>}))

\* An HTTP response as the code reads it: res.status, and what res.text() holds.
Responses ==
    { [status |-> 200, body |-> "success_true"],
      [status |-> 200, body |-> "success_false"],
      [status |-> 200, body |-> "not_json"],
      [status |-> 429, body |-> "success_false"],
      [status |-> 500, body |-> "success_false"],
      [status |-> 500, body |-> "not_json"] }
NoRes == [status |-> 0, body |-> "none"]

\* res.ok
ResOk(res) == res.status \in 200..299

\* The remote list changes exactly when it answers 2xx with success: true.
Accepted(res) == ResOk(res) /\ res.body = "success_true"

\* A PATCH body: the keys present on the object, and their lists.
Payload(key, list) ==
    [keys |-> {key},
     append |-> IF key = "append" THEN list ELSE <<>>,
     remove |-> IF key = "remove" THEN list ELSE <<>>]
NoPayload == [keys |-> {}, append |-> <<>>, remove |-> <<>>]

\* One entry of an invocation's trace of I/O.
Ev(op, what, idx, of, payload, res, outcome) ==
    [op |-> op, what |-> what, idx |-> idx, of |-> of,
     payload |-> payload, res |-> res, outcome |-> outcome]
StoreEv(op, what, ok) ==
    Ev(op, what, 0, 0, NoPayload, NoRes, IF ok THEN "returned" ELSE "threw")

\* ------------------------------------------------------- the code, pure parts
\* new Set(list) spread back into an array: first occurrences, in order
Dedupe(list) ==
    LET first(k) == \A j \in 1..(k - 1) : list[j] # list[k]
        kept == SelectSeq([k \in 1..Len(list) |-> k], first)
    IN  [n \in 1..Len(kept) |-> list[kept[n]]]

\* The remote list keeps its values in the order they were added, each once:
\* append is set-insert, remove is set-delete.
ApplyPatch(list, payload) ==
    LET new(v) == v \notin Range(list)
        stays(v) == v \notin Range(payload.remove)
    IN  SelectSeq(list \o SelectSeq(Dedupe(payload.append), new), stays)

\* list.slice(from, to), zero-based, to exclusive
Slice(list, from, to) == SubSeq(list, from + 1, Min(to, Len(list)))

\* line 43 without its filter: duplicates dropped, nothing validated
ValidDesiredUnfiltered(desired) == Dedupe(desired)

\* syncASN, line 43
ValidDesired(desired) == Dedupe(SelectSeq(desired, isValidCIDR))

\* the check of line 47 left out
NothingValidUnchecked(validDesired, desired) == FALSE

\* syncASN, line 47: "No valid prefixes after filtering; check prefix format"
NothingValid(validDesired, desired) == Len(validDesired) = 0 /\ Len(desired) > 0

\* syncASN, lines 57-60
ToAdd(validDesired, existing) ==
    LET absent(prefix) == prefix \notin Range(existing)
    IN  SelectSeq(validDesired, absent)

\* the remove filter testing the wrong set, !existingSet.has(prefix)
ToRemoveWrongSet(validDesired, existing) ==
    LET absent(prefix) == prefix \notin Range(existing)
    IN  SelectSeq(existing, absent)

ToRemove(validDesired, existing) ==
    LET absent(prefix) == prefix \notin Range(validDesired)
    IN  SelectSeq(existing, absent)

\* the slice one short, list.slice(i, i + size - 1)
BatchesOneShort(list, size) ==
    LET starts == {i \in 0..(Len(list) - 1) : i % size = 0}
    IN  [k \in 1..Cardinality(starts) |->
            Slice(list, (k - 1) * size, (k - 1) * size + size - 1)]

\* the loop test off by one, i <= list.length: a last chunk that may be empty
BatchesWithEmptyTail(list, size) ==
    LET starts == {i \in 0..Len(list) : i % size = 0}
    IN  [k \in 1..Cardinality(starts) |-> Slice(list, (k - 1) * size, (k - 1) * size + size)]

\* updateGatewayListBatched, lines 179-186:
\* for (let i = 0; i < list.length; i += size) batches.push(list.slice(i, i + size))
Batches(list, size) ==
    LET starts == {i \in 0..(Len(list) - 1) : i % size = 0}
    IN  [k \in 1..Cardinality(starts) |-> Slice(list, (k - 1) * size, (k - 1) * size + size)]

\* fetchDesiredPrefixes: what it returns or throws, and the statements it runs.
\* rows: the prefix column of the rows with active = 1; a statement against a
\* missing table, or one the store fails, throws.
fetchDesiredPrefixes(tbls, table, storeOk) ==
    IF ~storeOk \/ table \notin DOMAIN tbls
    THEN [threw |-> TRUE, value |-> <<>>, error |-> "Failed to fetch desired prefixes",
          queries |-> <<"select_active">>]
    ELSE IF Len(tbls[table]) = 0
    THEN [threw |-> TRUE, value |-> <<>>, error |-> "No prefixes found",
          queries |-> <<"select_active", "table_check", "sample", "active_histogram">>]
    ELSE [threw |-> FALSE, value |-> tbls[table], error |-> "",
          queries |-> <<"select_active">>]

\* fetchCurrentGatewayList, lines 148-164
fetchCurrentGatewayList(res, list) ==
    IF ~ResOk(res)
    THEN [threw |-> TRUE, value |-> <<>>, error |-> "API request failed"]
    ELSE IF res.body = "not_json"
    THEN [threw |-> TRUE, value |-> <<>>, error |-> "Failed to parse API response"]
    ELSE IF res.body # "success_true"
    THEN [threw |-> FALSE, value |-> <<>>, error |-> ""]
    ELSE [threw |-> FALSE, value |-> list, error |-> ""]

\* updateGatewayListSingle, lines 206-209: neither key on the payload
SkipsPayload(payload) == "append" \notin payload.keys /\ "remove" \notin payload.keys

\* a 429 taken for done: no delay, no second request
updateGatewayListSingleNoRetry(res) ==
    IF ~ResOk(res)
    THEN IF res.status = 429 THEN "returned" ELSE "threw"
    ELSE IF res.body = "not_json" THEN "threw"
    ELSE IF res.body # "success_true" THEN "threw"
    ELSE "returned"

\* the success flag of the body not looked at
updateGatewayListSingleNoFlag(res) ==
    IF ~ResOk(res)
    THEN IF res.status = 429 THEN "retry" ELSE "threw"
    ELSE IF res.body = "not_json" THEN "threw"
    ELSE "returned"

\* updateGatewayListSingle, lines 223-243: how one attempt ends
updateGatewayListSingle(res) ==
    IF ~ResOk(res)
    THEN IF res.status = 429 THEN "retry" ELSE "threw"
    ELSE IF res.body = "not_json" THEN "threw"
    ELSE IF res.body # "success_true" THEN "threw"
    ELSE "returned"

\* the probe letting a 429 pass
testGatewayListUpdateIgnores429(res) ==
    IF ~ResOk(res) THEN IF res.status = 429 THEN "returned" ELSE "threw"
    ELSE IF res.body = "not_json" THEN "threw"
    ELSE IF res.body # "success_true" THEN "threw"
    ELSE "returned"

\* testGatewayListUpdate, lines 271-285
testGatewayListUpdate(res) ==
    IF ~ResOk(res) THEN "threw"
    ELSE IF res.body = "not_json" THEN "threw"
    ELSE IF res.body # "success_true" THEN "threw"
    ELSE "returned"

\* syncASN, line 73
ProbeWanted(toAdd) == Len(toAdd) > 0

\* ------------------------------------------------------------------ state
VARIABLES
    tables,           \* the store: table name -> prefix column of its active rows
    synced_prefixes,  \* the store: rows (asn, prefix), unique
    sync_state,       \* the store: rows (asn, last_run), asn the primary key
    gatewayList,      \* the remote list: its values, in the order it returns them
    clock,            \* invocations so far; the time a timestamp reads
    inv,              \* per slot: the invocation's position and locals
    log,              \* per slot: the I/O the invocation has done, in order
    quiet             \* the ASN whose sync was the last thing to succeed, or <<>>

vars == <<tables, synced_prefixes, sync_state, gatewayList, clock, inv, log, quiet>>

IdleInv ==
    [pc |-> "idle", entry |-> "none", asn |-> NoAsn, env |-> FullEnv,
     table |-> <<>>, lastRun |-> 0,
     desired |-> <<>>, existing |-> <<>>, validDesired |-> <<>>,
     toAdd |-> <<>>, toRemove |-> <<>>, addBatches |-> <<>>, removeBatches |-> <<>>,
     i |-> 0, resume |-> "none", n429 |-> 0,
     result |-> "none", error |-> "", http |-> 0,
     afterSync |-> FALSE, list0 |-> <<>>]

\* A content of the remote list over SmallPrefixes
ListOf(S) ==
    LET in(v) == v \in S
    IN  SelectSeq(<<V4, V6, NoLen>>, in)

SmallTables == UNION {[1..n -> SmallPrefixes] : n \in 0..MaxRows}

\* The table of AS1 and the remote list at the start: every small pair, and the
\* large table against a list it shares nothing with and one it overlaps.
Contents ==
    (SmallTables \X {ListOf(S) : S \in SUBSET SmallPrefixes})
    \cup {<<BigSeq(1, BigN), <<V6>>>>, <<BigSeq(1, BigN), BigSeq(70, BigN + 60)>>}

Init ==
    /\ \E c \in Contents :
          /\ tables = [t \in {AS1} |-> c[1]]
          /\ gatewayList = c[2]
    /\ synced_prefixes = {[asn |-> AS1, prefix |-> V6], [asn |-> AS2, prefix |-> V6]}
    /\ sync_state = {}
    /\ clock = 0
    /\ inv = [p \in Procs |-> IdleInv]
    /\ log = [p \in Procs |-> <<>>]
    /\ quiet = <<>>

\* How an invocation ends: syncASN returns or throws; fetch answers 200 or 500.
Returned(r) ==
    [r EXCEPT !.pc = "done", !.result = "ok",
              !.http = IF r.entry = "fetch" THEN 200 ELSE 0]
Threw(r, error) ==
    [r EXCEPT !.pc = "done", !.result = "error", !.error = error,
              !.http = IF r.entry = "fetch" THEN 500 ELSE 0]

OthersInactive(p) == \A q \in Procs \ {p} : inv[q].pc \in {"idle", "done"}

\* the checks with API_KEY left out of the test of line 28
syncASNChecksNoKey(r) ==
    IF syncASNRejects(r.asn) THEN Threw(r, "Invalid ASN format")
    ELSE IF ~r.env.DB THEN Threw(r, "Database not initialized")
    ELSE IF ~r.env.ACCOUNT_ID \/ ~r.env.LIST_ID \/ ~r.env.API_EMAIL
    THEN Threw(r, "Missing Cloudflare API credentials")
    ELSE [r EXCEPT !.pc = "lastRun", !.table = r.asn.text]

\* syncASN, lines 21-30: the checks before the first await
syncASNChecks(r) ==
    IF syncASNRejects(r.asn) THEN Threw(r, "Invalid ASN format")
    ELSE IF ~r.env.DB THEN Threw(r, "Database not initialized")
    ELSE IF ~r.env.ACCOUNT_ID \/ ~r.env.LIST_ID \/ ~r.env.API_EMAIL \/ ~r.env.API_KEY
    THEN Threw(r, "Missing Cloudflare API credentials")
    ELSE [r EXCEPT !.pc = "lastRun", !.table = r.asn.text]

\* fetch, lines 4-10, or a direct call of syncASN; then syncASN to its first await
Invoke(p, entry, asn, env) ==
    /\ inv[p].pc = "idle"
    /\ clock < MaxRuns
    /\ LET r == [IdleInv EXCEPT !.entry = entry, !.asn = asn, !.env = env,
                                !.afterSync = (asn.present /\ asn.text # <<>> /\ quiet = asn.text),
                                !.list0 = gatewayList]
       IN  inv' = [inv EXCEPT ![p] =
                IF entry = "fetch" /\ fetchRejects(asn)
                THEN [r EXCEPT !.pc = "done", !.result = "rejected", !.http = 400,
                               !.error = "Missing or invalid ?asn=ASxxxx parameter"]
                ELSE syncASNChecks(r)]
    /\ clock' = clock + 1
    /\ quiet' = <<>>
    /\ UNCHANGED <<tables, synced_prefixes, sync_state, gatewayList, log>>

\* the runtime is done with the invocation
Return(p) ==
    /\ inv[p].pc = "done"
    /\ inv' = [inv EXCEPT ![p] = IdleInv]
    /\ log' = [log EXCEPT ![p] = <<>>]
    /\ UNCHANGED <<tables, synced_prefixes, sync_state, gatewayList, clock, quiet>>

\* syncASN, lines 34-35: SELECT last_run FROM sync_state WHERE asn = ?
FetchLastRun(p, storeOk) ==
    LET r == inv[p]
        rows == {row \in sync_state : row.asn = r.asn.text}
    IN  /\ r.pc = "lastRun"
        /\ log' = [log EXCEPT ![p] = Append(@, StoreEv("query", "last_run", storeOk))]
        /\ inv' = [inv EXCEPT ![p] =
                IF ~storeOk THEN Threw(r, "D1 error")
                ELSE [r EXCEPT !.pc = "loadDesired",
                               !.lastRun = IF rows = {} THEN 0
                                           ELSE (CHOOSE row \in rows : TRUE).last_run]]
        /\ UNCHANGED <<tables, synced_prefixes, sync_state, gatewayList, clock, quiet>>

\* syncASN, line 39
LoadDesired(p, storeOk) ==
    LET r == inv[p]
        got == fetchDesiredPrefixes(tables, r.table, storeOk)
    IN  /\ r.pc = "loadDesired"
        /\ log' = [log EXCEPT ![p] = @ \o
                [k \in 1..Len(got.queries) |->
                    StoreEv("query", got.queries[k], ~(got.threw /\ k = 1 /\ Len(got.queries) = 1))]]
        /\ inv' = [inv EXCEPT ![p] =
                IF got.threw THEN Threw(r, got.error)
                ELSE [r EXCEPT !.pc = "loadRemote", !.desired = got.value]]
        /\ UNCHANGED <<tables, synced_prefixes, sync_state, gatewayList, clock, quiet>>

\* syncASN, lines 73-78, after updateGatewayListBatched has returned
AfterBatched(r) ==
    [r EXCEPT !.pc = IF ProbeWanted(r.toAdd) THEN "probe" ELSE "delete", !.i = 0]

\* updateGatewayListBatched, lines 198-202: entering the remove loop
EnterRemoveLoop(r) ==
    IF 0 < Len(r.removeBatches) THEN [r EXCEPT !.pc = "remove", !.i = 0]
    ELSE AfterBatched(r)

\* updateGatewayListBatched, lines 191-195: entering the append loop
EnterAppendLoop(r) ==
    IF 0 < Len(r.addBatches) THEN [r EXCEPT !.pc = "append", !.i = 0]
    ELSE EnterRemoveLoop(r)

\* syncASN, lines 43-70: from the list read to the first PATCH
Reconcile(r, existing) ==
    LET validDesired == ValidDesired(r.desired)
        toAdd == ToAdd(validDesired, existing)
        toRemove == ToRemove(validDesired, existing)
    IN  IF NothingValid(validDesired, r.desired)
        THEN Threw([r EXCEPT !.existing = existing, !.validDesired = validDesired],
                   "No valid prefixes after filtering; check prefix format")
        ELSE EnterAppendLoop(
                [r EXCEPT !.existing = existing, !.validDesired = validDesired,
                          !.toAdd = toAdd, !.toRemove = toRemove,
                          !.addBatches = Batches(toAdd, batchSize),
                          !.removeBatches = Batches(toRemove, batchSize)])

\* syncASN, line 40 (the GET), and on to the first PATCH
LoadRemote(p, res) ==
    LET r == inv[p]
        got == fetchCurrentGatewayList(res, gatewayList)
    IN  /\ r.pc = "loadRemote"
        /\ log' = [log EXCEPT ![p] = Append(@,
                Ev("GET", "list", 0, 0, NoPayload, res,
                   IF got.threw THEN "threw" ELSE "returned"))]
        /\ inv' = [inv EXCEPT ![p] =
                IF got.threw THEN Threw(r, got.error) ELSE Reconcile(r, got.value)]
        /\ UNCHANGED <<tables, synced_prefixes, sync_state, gatewayList, clock, quiet>>

\* the loop of updateGatewayListBatched that pc names
BatchesOf(r, key) == IF key = "append" THEN r.addBatches ELSE r.removeBatches

\* updateGatewayListBatched, lines 191-202: where the loop goes after batch i
NextBatch(r, key) ==
    IF r.i + 1 < Len(BatchesOf(r, key)) THEN [r EXCEPT !.i = r.i + 1]
    ELSE IF key = "append" THEN EnterRemoveLoop(r)
    ELSE AfterBatched(r)

\* One attempt of updateGatewayListSingle for batch i of a loop.
PatchBatch(p, res, key) ==
    LET r == inv[p]
        batches == BatchesOf(r, key)
        payload == Payload(key, batches[r.i + 1])
        how == updateGatewayListSingle(res)
    IN  /\ r.pc = key
        /\ res.status = 429 => r.n429 < Max429
        /\ IF SkipsPayload(payload)
           THEN /\ inv' = [inv EXCEPT ![p] = NextBatch(r, key)]
                /\ UNCHANGED <<log, gatewayList>>
           ELSE /\ log' = [log EXCEPT ![p] = Append(@,
                        Ev("PATCH", key, r.i + 1, Len(batches), payload, res, how))]
                /\ gatewayList' = IF Accepted(res) THEN ApplyPatch(gatewayList, payload)
                                  ELSE gatewayList
                /\ inv' = [inv EXCEPT ![p] =
                        CASE how = "returned" -> NextBatch([r EXCEPT !.resume = "none"], key)
                          [] how = "retry" -> [r EXCEPT !.pc = "delay", !.resume = key,
                                                        !.n429 = r.n429 + 1]
                          [] OTHER -> Threw(r, "Failed to update Gateway list")]
        /\ UNCHANGED <<tables, synced_prefixes, sync_state, clock, quiet>>

AppendBatch(p, res) == PatchBatch(p, res, "append")
RemoveBatch(p, res) == PatchBatch(p, res, "remove")

\* updateGatewayListSingle, line 226: the fixed delay, then the same call again
RetryDelay(p) ==
    LET r == inv[p]
    IN  /\ r.pc = "delay"
        /\ log' = [log EXCEPT ![p] = Append(@,
                Ev("delay", r.resume, r.i + 1, Len(BatchesOf(r, r.resume)),
                   NoPayload, NoRes, "returned"))]
        /\ inv' = [inv EXCEPT ![p] = [r EXCEPT !.pc = r.resume]]
        /\ UNCHANGED <<tables, synced_prefixes, sync_state, gatewayList, clock, quiet>>

\* syncASN, line 75: testGatewayListUpdate(env, toAdd[0])
Probe(p, res) ==
    LET r == inv[p]
        payload == Payload("append", <<r.toAdd[1]>>)
        how == testGatewayListUpdate(res)
    IN  /\ r.pc = "probe"
        /\ log' = [log EXCEPT ![p] = Append(@, Ev("PATCH", "probe", 0, 0, payload, res, how))]
        /\ gatewayList' = IF Accepted(res) THEN ApplyPatch(gatewayList, payload)
                          ELSE gatewayList
        /\ inv' = [inv EXCEPT ![p] =
                IF how = "returned" THEN [r EXCEPT !.pc = "delete", !.i = 0]
                ELSE Threw(r, "Test PATCH failed")]
        /\ UNCHANGED <<tables, synced_prefixes, sync_state, clock, quiet>>

\* updateSyncedPrefixes without its DELETE: the rows of the ASN are left in place
DeleteSyncedKeepsRows(p, storeOk) ==
    LET r == inv[p]
    IN  /\ r.pc = "delete"
        /\ log' = [log EXCEPT ![p] = Append(@, StoreEv("write", "delete", storeOk))]
        /\ inv' = [inv EXCEPT ![p] =
                IF ~storeOk THEN Threw(r, "Failed to update synced prefixes")
                ELSE IF Len(r.validDesired) = 0 THEN [r EXCEPT !.pc = "recordTime"]
                ELSE [r EXCEPT !.pc = "insert", !.i = 0]]
        /\ UNCHANGED <<tables, synced_prefixes, sync_state, gatewayList, clock, quiet>>

\* updateSyncedPrefixes, lines 295-301: DELETE FROM synced_prefixes WHERE asn = ?
DeleteSynced(p, storeOk) ==
    LET r == inv[p]
    IN  /\ r.pc = "delete"
        /\ log' = [log EXCEPT ![p] = Append(@, StoreEv("write", "delete", storeOk))]
        /\ synced_prefixes' = IF storeOk
                              THEN {row \in synced_prefixes : row.asn # r.table}
                              ELSE synced_prefixes
        /\ inv' = [inv EXCEPT ![p] =
                IF ~storeOk THEN Threw(r, "Failed to update synced prefixes")
                ELSE IF Len(r.validDesired) = 0 THEN [r EXCEPT !.pc = "recordTime"]
                ELSE [r EXCEPT !.pc = "insert", !.i = 0]]
        /\ UNCHANGED <<tables, sync_state, gatewayList, clock, quiet>>

\* the inserts as one transaction: a failed chunk takes the earlier chunks with it
InsertChunkRollsBack(p, storeOk) ==
    LET r == inv[p]
        batch == Slice(r.validDesired, r.i, r.i + insertBatchSize)
    IN  /\ r.pc = "insert"
        /\ log' = [log EXCEPT ![p] = Append(@, StoreEv("write", "insert", storeOk))]
        /\ synced_prefixes' = IF storeOk
                              THEN synced_prefixes \cup
                                   {[asn |-> r.table, prefix |-> batch[k]] : k \in 1..Len(batch)}
                              ELSE {row \in synced_prefixes : row.asn # r.table}
        /\ inv' = [inv EXCEPT ![p] =
                IF ~storeOk THEN Threw(r, "Failed to update synced prefixes")
                ELSE IF r.i + insertBatchSize < Len(r.validDesired)
                THEN [r EXCEPT !.i = r.i + insertBatchSize]
                ELSE [r EXCEPT !.pc = "recordTime"]]
        /\ UNCHANGED <<tables, sync_state, gatewayList, clock, quiet>>

\* updateSyncedPrefixes, lines 305-314: one DB.batch of INSERT OR IGNORE
InsertChunk(p, storeOk) ==
    LET r == inv[p]
        batch == Slice(r.validDesired, r.i, r.i + insertBatchSize)
    IN  /\ r.pc = "insert"
        /\ log' = [log EXCEPT ![p] = Append(@, StoreEv("write", "insert", storeOk))]
        /\ synced_prefixes' = IF storeOk
                              THEN synced_prefixes \cup
                                   {[asn |-> r.table, prefix |-> batch[k]] : k \in 1..Len(batch)}
                              ELSE synced_prefixes
        /\ inv' = [inv EXCEPT ![p] =
                IF ~storeOk THEN Threw(r, "Failed to update synced prefixes")
                ELSE IF r.i + insertBatchSize < Len(r.validDesired)
                THEN [r EXCEPT !.i = r.i + insertBatchSize]
                ELSE [r EXCEPT !.pc = "recordTime"]]
        /\ UNCHANGED <<tables, sync_state, gatewayList, clock, quiet>>

\* recordSyncTime with its error swallowed: syncASN returns whatever the upsert did
RecordSyncTimeSwallows(p, storeOk) ==
    LET r == inv[p]
    IN  /\ r.pc = "recordTime"
        /\ log' = [log EXCEPT ![p] = Append(@, StoreEv("write", "upsert", storeOk))]
        /\ sync_state' = IF storeOk
                         THEN {row \in sync_state : row.asn # r.asn.text}
                              \cup {[asn |-> r.asn.text, last_run |-> clock]}
                         ELSE sync_state
        /\ inv' = [inv EXCEPT ![p] = Returned(r)]
        /\ quiet' = IF storeOk /\ OthersInactive(p) THEN r.table ELSE quiet
        /\ UNCHANGED <<tables, synced_prefixes, gatewayList, clock>>

\* recordSyncTime, lines 322-327: the upsert; then syncASN returns
RecordSyncTime(p, storeOk) ==
    LET r == inv[p]
    IN  /\ r.pc = "recordTime"
        /\ log' = [log EXCEPT ![p] = Append(@, StoreEv("write", "upsert", storeOk))]
        /\ sync_state' = IF storeOk
                         THEN {row \in sync_state : row.asn # r.asn.text}
                              \cup {[asn |-> r.asn.text, last_run |-> clock]}
                         ELSE sync_state
        /\ inv' = [inv EXCEPT ![p] =
                IF storeOk THEN Returned(r) ELSE Threw(r, "Failed to record sync time")]
        /\ quiet' = IF storeOk /\ OthersInactive(p) THEN r.table ELSE quiet
        /\ UNCHANGED <<tables, synced_prefixes, gatewayList, clock>>

\* Invocations do not overlap: the runtime starts one only when none is running,
\* in the first slot.
InvokeAlone ==
    /\ \A q \in Procs : inv[q].pc = "idle"
    /\ \E c \in Calls : Invoke(1, c[1], c[2][1], c[2][2])

Step(p) ==
    \/ Return(p)
    \/ \E storeOk \in BOOLEAN : FetchLastRun(p, storeOk)
    \/ \E storeOk \in BOOLEAN : LoadDesired(p, storeOk)
    \/ \E res \in Responses : LoadRemote(p, res)
    \/ \E res \in Responses : AppendBatch(p, res)
    \/ \E res \in Responses : RemoveBatch(p, res)
    \/ RetryDelay(p)
    \/ \E res \in Responses : Probe(p, res)
    \/ \E storeOk \in BOOLEAN : DeleteSynced(p, storeOk)
    \/ \E storeOk \in BOOLEAN : InsertChunk(p, storeOk)
    \/ \E storeOk \in BOOLEAN : RecordSyncTime(p, storeOk)

Next == InvokeAlone \/ \E p \in Procs : Step(p)

Spec == Init /\ [][Next]_vars

\* ------------------------------------------- rate limiting without end
\* The retry of updateGatewayListSingle has no counter, so a batch may be
\* answered 429 any number of times.  The trace keeps the first Max429
\* rate-limited attempts of a run; the attempts after them go round the same
\* request, delay and recursive call without being recorded.
LastEv(p) == log[p][Len(log[p])]

\* the delay follows a rate-limited attempt that the trace holds
DelayRecorded(p) ==
    inv[p].pc = "delay" => LastEv(p).op = "PATCH" /\ LastEv(p).res.status = 429

\* a retry bound: the attempt after Max429 rate-limited ones gives up
RateLimitedGivesUp(p, key) ==
    LET r == inv[p]
    IN  /\ r.pc = key
        /\ r.n429 = Max429
        /\ inv' = [inv EXCEPT ![p] = Threw(r, "Failed to update Gateway list")]
        /\ UNCHANGED <<tables, synced_prefixes, sync_state, gatewayList, clock, log, quiet>>

\* updateGatewayListSingle, lines 214-226: one more attempt answered 429
RateLimitedAgain(p, key) ==
    LET r == inv[p]
    IN  /\ r.pc = key
        /\ r.n429 = Max429
        /\ inv' = [inv EXCEPT ![p] = [r EXCEPT !.pc = "delay", !.resume = key]]
        /\ UNCHANGED <<tables, synced_prefixes, sync_state, gatewayList, clock, log, quiet>>

\* updateGatewayListSingle, lines 226-227: the delay after it, and the same call
DelayAgain(p) ==
    LET r == inv[p]
    IN  /\ r.pc = "delay"
        /\ LastEv(p).op = "delay"
        /\ inv' = [inv EXCEPT ![p] = [r EXCEPT !.pc = r.resume]]
        /\ UNCHANGED <<tables, synced_prefixes, sync_state, gatewayList, clock, log, quiet>>

StepLive(p) ==
    \/ Return(p)
    \/ \E storeOk \in BOOLEAN : FetchLastRun(p, storeOk)
    \/ \E storeOk \in BOOLEAN : LoadDesired(p, storeOk)
    \/ \E res \in Responses : LoadRemote(p, res)
    \/ \E res \in Responses : AppendBatch(p, res)
    \/ \E res \in Responses : RemoveBatch(p, res)
    \/ DelayRecorded(p) /\ RetryDelay(p)
    \/ \E res \in Responses : Probe(p, res)
    \/ \E storeOk \in BOOLEAN : DeleteSynced(p, storeOk)
    \/ \E storeOk \in BOOLEAN : InsertChunk(p, storeOk)
    \/ \E storeOk \in BOOLEAN : RecordSyncTime(p, storeOk)
    \/ RateLimitedAgain(p, "append")
    \/ RateLimitedAgain(p, "remove")
    \/ DelayAgain(p)

NextLive == InvokeAlone \/ \E p \in Procs : StepLive(p)

\* The table of AS1 and the remote list at the start: something to append and
\* something to remove, something to append alone, something to remove alone.
LiveContents ==
    { <<<<V4>>, <<V6>>>>, <<<<V4, V6>>, <<>>>>, <<<<V6>>, <<V4, V6>>>> }

InitLive ==
    /\ \E c \in LiveContents :
          /\ tables = [t \in {AS1} |-> c[1]]
          /\ gatewayList = c[2]
    /\ synced_prefixes = {[asn |-> AS1, prefix |-> V6], [asn |-> AS2, prefix |-> V6]}
    /\ sync_state = {}
    /\ clock = 0
    /\ inv = [p \in Procs |-> IdleInv]
    /\ log = [p \in Procs |-> <<>>]
    /\ quiet = <<>>

\* The runtime resumes an invocation whenever the I/O it awaits has completed;
\* whether a request arrives at all is left open.
SpecLive == InitLive /\ [][NextLive]_vars /\ \A p \in Procs : WF_vars(StepLive(p))

\* ------------------------------------------------- overlapping invocations
\* The runtime serves every request as it arrives: an invocation starts in any
\* free slot while another is at an await.  Whoever feeds the prefix table
\* changes its active rows at a time of its own choosing.

\* The table of AS1 at the start, the remote list at the start, and the table
\* after the change.
OverlapContents ==
    { << <<V6, Pfx(2)>>, <<V4, Pfx(2)>>, <<V4, Pfx(3)>> >>,
      << <<V4>>, <<>>, <<V6>> >> }

InitOverlap ==
    /\ \E c \in OverlapContents :
          /\ tables = [t \in {AS1} |-> c[1]]
          /\ gatewayList = c[2]
    /\ synced_prefixes = {[asn |-> AS1, prefix |-> V6], [asn |-> AS2, prefix |-> V6]}
    /\ sync_state = {}
    /\ clock = 0
    /\ inv = [p \in Procs |-> IdleInv]
    /\ log = [p \in Procs |-> <<>>]
    /\ quiet = <<>>

\* the active rows of the table of AS1 are replaced
TableChange ==
    /\ \E c \in OverlapContents :
          /\ tables[AS1] = c[1]
          /\ tables' = [tables EXCEPT ![AS1] = c[3]]
    /\ UNCHANGED <<synced_prefixes, sync_state, gatewayList, clock, inv, log, quiet>>

\* a lock around the sync: a request waits while another invocation runs
InvokeExclusive(p) ==
    /\ OthersInactive(p)
    /\ Invoke(p, "fetch", Asn(AS1), FullEnv)

\* fetch, lines 2-10: a request for AS1 is served, whatever else is running
InvokeOverlap(p) == Invoke(p, "fetch", Asn(AS1), FullEnv)

\* the answers enumerated for two invocations at once: accepted, rate-limited,
\* failed
OverlapResponses ==
    { [status |-> 200, body |-> "success_true"],
      [status |-> 429, body |-> "success_false"],
      [status |-> 500, body |-> "not_json"] }

\* The steps of an invocation.  Its record is kept when it has ended, so that
\* two invocations can be compared.
StepOverlap(p) ==
    \/ \E storeOk \in BOOLEAN : FetchLastRun(p, storeOk)
    \/ \E storeOk \in BOOLEAN : LoadDesired(p, storeOk)
    \/ \E res \in OverlapResponses : LoadRemote(p, res)
    \/ \E res \in OverlapResponses : AppendBatch(p, res)
    \/ \E res \in OverlapResponses : RemoveBatch(p, res)
    \/ RetryDelay(p)
    \/ \E res \in OverlapResponses : Probe(p, res)
    \/ \E storeOk \in BOOLEAN : DeleteSynced(p, storeOk)
    \/ \E storeOk \in BOOLEAN : InsertChunk(p, storeOk)
    \/ \E storeOk \in BOOLEAN : RecordSyncTime(p, storeOk)

NextOverlap ==
    \/ TableChange
    \/ \E p \in Procs : InvokeOverlap(p)
    \/ \E p \in Procs : StepOverlap(p)

SpecOverlap == InitOverlap /\ [][NextOverlap]_vars

\* ------------------------------------------------------------ the claims
\* What a claim reads off an invocation's trace.
IsPatch(ev) == ev.op = "PATCH"
IsBatch(ev) == ev.op = "PATCH" /\ ev.what \in {"append", "remove"}
IsWrite(ev) == ev.op = "write"
IsRemote(ev) == ev.op \in {"GET", "PATCH"}

\* A remote failure as the error taxonomy has it: a non-2xx answer, a body that
\* does not parse, or success: false.
RemoteFailure(ev) == IsRemote(ev) /\ ~Accepted(ev.res)

\* ... other than the 429 a batch answers to, which is retried
TerminalFailure(ev) == RemoteFailure(ev) /\ ~(IsBatch(ev) /\ ev.res.status = 429)

\* The validated, deduplicated Desired Set of the run
DesiredSet(p) == {v \in Range(inv[p].desired) : isValidCIDR(v)}

\* The list read has returned to syncASN
ListRead(p) == \E k \in 1..Len(log[p]) : log[p][k].op = "GET" /\ log[p][k].outcome = "returned"

Succeeded(p) == inv[p].pc = "done" /\ inv[p].result = "ok"
Failed(p) == inv[p].pc = "done" /\ inv[p].result = "error"

\* C1: when syncASN returns success (invocations do not overlap, the remote list
\* is a set), the values of the remote list are exactly the validated,
\* deduplicated Desired Set loaded in that run.
C1_RemoteEqualsDesired ==
    \A p \in Procs : Succeeded(p) => Range(gatewayList) = DesiredSet(p)

\* the batches of the run that have a returned PATCH before position k
BatchDoneBefore(p, k, key, n) ==
    \E j \in 1..(k - 1) :
        /\ log[p][j].op = "PATCH" /\ log[p][j].what = key /\ log[p][j].idx = n
        /\ Accepted(log[p][j].res)

\* C2: the writes to synced_prefixes and sync_state come only after every append
\* batch, every remove batch and the probe have been answered with success, and
\* a run in which a remote request fails writes nothing to the store.
C2_PersistOnlyAfterRemoteSuccess ==
    \A p \in Procs :
        LET L == log[p]
            r == inv[p]
        IN  /\ \A k \in 1..Len(L) : IsWrite(L[k]) =>
                  /\ \A n \in 1..Len(r.addBatches) : BatchDoneBefore(p, k, "append", n)
                  /\ \A n \in 1..Len(r.removeBatches) : BatchDoneBefore(p, k, "remove", n)
                  /\ DesiredSet(p) \ Range(r.list0) # {} =>
                        \E j \in 1..(k - 1) : L[j].what = "probe" /\ Accepted(L[j].res)
            /\ (\E j \in 1..Len(L) : TerminalFailure(L[j])) =>
                  \A k \in 1..Len(L) : ~IsWrite(L[k])

\* C2 without its last clause: the order of the batches, the probe and the writes
PersistAfterBatches ==
    \A p \in Procs :
        LET L == log[p]
            r == inv[p]
        IN  \A k \in 1..Len(L) : IsWrite(L[k]) =>
                /\ \A n \in 1..Len(r.addBatches) : BatchDoneBefore(p, k, "append", n)
                /\ \A n \in 1..Len(r.removeBatches) : BatchDoneBefore(p, k, "remove", n)
                /\ \A j \in 1..(k - 1) : IsPatch(L[j]) => ~TerminalFailure(L[j])

\* C3: a run that loaded zero active rows, or whose loaded rows are all invalid,
\* fails without a PATCH and without a store write.
LoadedNothing(p) ==
    /\ inv[p].table \in DOMAIN tables
    /\ tables[inv[p].table] = <<>>
    /\ \E k \in 1..Len(log[p]) :
          log[p][k].what = "select_active" /\ log[p][k].outcome = "returned"

AllInvalid(p) ==
    /\ inv[p].desired # <<>>
    /\ \A k \in 1..Len(inv[p].desired) : ~isValidCIDR(inv[p].desired[k])

C3_NeverClearsOnMissingData ==
    \A p \in Procs :
        /\ LoadedNothing(p) => Failed(p)
        /\ AllInvalid(p) /\ ListRead(p) => Failed(p)
        /\ LoadedNothing(p) \/ AllInvalid(p) =>
              \A k \in 1..Len(log[p]) : ~IsPatch(log[p][k]) /\ ~IsWrite(log[p][k])

C3_Witness ==
    \E p \in Procs :
        /\ AllInvalid(p) /\ ListRead(p) /\ Failed(p)
        /\ gatewayList # <<>>

\* C4: an ASN that is not "AS" followed by one or more digits is rejected with no
\* store query, no store write and no remote call, through fetch and through
\* syncASN alike.
IsAsDigits(asn) ==
    /\ asn.present
    /\ Len(asn.text) > 2
    /\ SubSeq(asn.text, 1, 2) = <<"A", "S">>
    /\ \A k \in 3..Len(asn.text) : asn.text[k] \in Digits

C4_InvalidAsnNoIO ==
    \A p \in Procs :
        inv[p].pc # "idle" /\ ~IsAsDigits(inv[p].asn) =>
            /\ inv[p].pc = "done"
            /\ inv[p].result \in {"rejected", "error"}
            /\ log[p] = <<>>

C4_Witness ==
    \E p \in Procs :
        /\ inv[p].pc = "done" /\ inv[p].entry = "direct"
        /\ inv[p].asn = Asn(<<"A", "S", "1", ";">>)
        /\ inv[p].error = "Invalid ASN format"
        /\ log[p] = <<>>

\* C5: the diff of the run is toAdd = D \ R and toRemove = R \ D under string
\* equality, so toAdd misses R, toRemove misses D, and what D and R share is in
\* neither.
Diffed(p) ==
    /\ ListRead(p)
    /\ \E k \in 1..Len(inv[p].desired) : isValidCIDR(inv[p].desired[k])

NoRepeat(list) == Cardinality(Range(list)) = Len(list)

C5_DiffIsSetDifference ==
    \A p \in Procs :
        LET D == DesiredSet(p)
            R == Range(inv[p].existing)
            add == Range(inv[p].toAdd)
            rem == Range(inv[p].toRemove)
        IN  Diffed(p) =>
                /\ add = D \ R
                /\ rem = R \ D
                /\ add \cap R = {}
                /\ rem \cap D = {}
                /\ (D \cap R) \cap (add \cup rem) = {}
                /\ NoRepeat(inv[p].toAdd) /\ NoRepeat(inv[p].toRemove)

C5_Witness ==
    \E p \in Procs :
        /\ Diffed(p)
        /\ inv[p].toAdd # <<>> /\ inv[p].toRemove # <<>>
        /\ DesiredSet(p) \cap Range(inv[p].existing) # {}

\* the requests of one loop of updateGatewayListBatched, in the order issued
RequestsOf(p, key) ==
    LET of(ev) == ev.op = "PATCH" /\ ev.what = key
    IN  SelectSeq(log[p], of)

RECURSIVE Concat(_)
Concat(lists) ==
    IF lists = <<>> THEN <<>> ELSE Head(lists) \o Concat(Tail(lists))

ListOfRequest(ev) == IF ev.what = "remove" THEN ev.payload.remove ELSE ev.payload.append

\* n items in chunks of at most batchSize: count is ceil(n / batchSize)
IsCeil(count, n) == count * batchSize >= n /\ (count - 1) * batchSize < n

\* updateGatewayListBatched has returned
BatchedReturned(p) ==
    \/ inv[p].pc \in {"probe", "delete", "insert", "recordTime"}
    \/ \E k \in 1..Len(log[p]) : log[p][k].what = "probe" \/ IsWrite(log[p][k])

\* C6: absent failures and 429s, updateGatewayListBatched issues ceil(n/50) append
\* requests and then ceil(m/50) remove requests; each carries at most 50 items,
\* the chunks in issue order concatenate to toAdd and to toRemove, and every
\* append request comes before any remove request.
C6_BatchesPartitionInOrder ==
    \A p \in Procs :
        LET L == log[p]
            adds == RequestsOf(p, "append")
            rems == RequestsOf(p, "remove")
        IN  /\ \A j, k \in 1..Len(L) :
                  L[j].op = "PATCH" /\ L[j].what = "remove"
                  /\ L[k].op = "PATCH" /\ L[k].what = "append" => k < j
            /\ \A k \in 1..Len(L) : IsBatch(L[k]) =>
                  Len(ListOfRequest(L[k])) \in 1..batchSize
            /\ (BatchedReturned(p) /\ \A k \in 1..Len(L) : IsBatch(L[k]) => Accepted(L[k].res)) =>
                  /\ IsCeil(Len(adds), Len(inv[p].toAdd))
                  /\ IsCeil(Len(rems), Len(inv[p].toRemove))
                  /\ Concat([k \in 1..Len(adds) |-> adds[k].payload.append]) = inv[p].toAdd
                  /\ Concat([k \in 1..Len(rems) |-> rems[k].payload.remove]) = inv[p].toRemove

\* toAdd of 120 goes out as 50, 50, 20, then the one remove batch
C6_Witness ==
    \E p \in Procs :
        LET adds == RequestsOf(p, "append")
        IN  /\ Succeeded(p)
            /\ Len(inv[p].toAdd) > 2 * batchSize
            /\ Len(adds) = 3
            /\ Len(adds[1].payload.append) = batchSize
            /\ Len(adds[3].payload.append) = Len(inv[p].toAdd) - 2 * batchSize
            /\ Len(RequestsOf(p, "remove")) = 1

\* C7: a sync that follows a successful sync of the same ASN, with nothing
\* changed in between, computes toAdd = toRemove = [] and issues no PATCH.
C7_SecondRunIsNoOp ==
    \A p \in Procs :
        inv[p].afterSync =>
            /\ inv[p].toAdd = <<>> /\ inv[p].toRemove = <<>>
            /\ \A k \in 1..Len(log[p]) : ~IsPatch(log[p][k])

\* what the accepted requests of the trace put on and took off the list
Appended(p) ==
    UNION {Range(log[p][k].payload.append) : k \in {j \in 1..Len(log[p]) : Accepted(log[p][j].res)}}
Removed(p) ==
    UNION {Range(log[p][k].payload.remove) : k \in {j \in 1..Len(log[p]) : Accepted(log[p][j].res)}}

\* the batch that follows batch ev of the run, as (what, idx); the probe or the
\* first write after the last one
FollowsBatch(p, ev, next) ==
    IF ev.idx < ev.of THEN next.op = "PATCH" /\ next.what = ev.what /\ next.idx = ev.idx + 1
    ELSE IF ev.what = "append" /\ inv[p].toRemove # <<>>
    THEN next.op = "PATCH" /\ next.what = "remove" /\ next.idx = 1
    ELSE IF inv[p].toAdd # <<>> THEN next.op = "PATCH" /\ next.what = "probe"
    ELSE next.op = "write" /\ next.what = "delete"

\* C8: a batch answered 429 and then with success is applied to the remote list
\* once; the second request carries the payload of the first, one delay and
\* nothing else lies between the two, and the sync goes on with the next batch.
C8_RetryAfter429 ==
    \A p \in Procs :
        LET L == log[p]
        IN  \A k \in 1..Len(L) : IsBatch(L[k]) /\ L[k].res.status = 429 =>
                /\ k = Len(L) => inv[p].pc = "delay"
                /\ k + 1 <= Len(L) => L[k + 1].op = "delay"
                /\ k + 1 = Len(L) => inv[p].pc = L[k].what
                /\ k + 2 <= Len(L) =>
                      /\ IsBatch(L[k + 2])
                      /\ L[k + 2].what = L[k].what /\ L[k + 2].idx = L[k].idx
                      /\ L[k + 2].payload = L[k].payload
                /\ k + 2 <= Len(L) /\ Accepted(L[k + 2].res) =>
                      /\ Cardinality({j \in 1..Len(L) :
                            /\ IsBatch(L[j]) /\ L[j].what = L[k].what /\ L[j].idx = L[k].idx
                            /\ Accepted(L[j].res)}) = 1
                      /\ Range(L[k].payload.append) \subseteq Range(gatewayList)
                      /\ Range(L[k].payload.remove) \cap Range(gatewayList) = {}
                      /\ k + 2 = Len(L) => inv[p].pc \in {"append", "remove", "probe", "delete"}
                      /\ k + 3 <= Len(L) => FollowsBatch(p, L[k], L[k + 3])

\* an append batch is answered 429, then 200; the remove batch follows
C8_Witness ==
    \E p \in Procs :
        LET L == log[p]
        IN  \E k \in 1..Len(L) :
                /\ k + 3 <= Len(L)
                /\ L[k].op = "PATCH" /\ L[k].what = "append" /\ L[k].res.status = 429
                /\ L[k + 1].op = "delay"
                /\ Accepted(L[k + 2].res)
                /\ L[k + 3].op = "PATCH" /\ L[k + 3].what = "remove"

\* a batch request whose answer is a failure other than 429
BatchFailed(ev) == IsBatch(ev) /\ TerminalFailure(ev)

\* C9: when a batch fails with something other than 429 the sync fails at once:
\* no later batch, no probe, no store write; what the batches before it did
\* stays on the remote list, and nothing is sent to undo it.
C9_FailFastNoRollback ==
    \A p \in Procs :
        LET L == log[p]
        IN  \A k \in 1..Len(L) : BatchFailed(L[k]) =>
                /\ k = Len(L)
                /\ Failed(p)
                /\ \A j \in 1..Len(L) : ~IsWrite(L[j]) /\ L[j].what # "probe"
                /\ Range(gatewayList) = (Range(inv[p].list0) \cup Appended(p)) \ Removed(p)

\* the appends went through, a remove batch failed: the list is neither what it
\* was nor the desired set
C9_Witness ==
    \E p \in Procs :
        LET L == log[p]
        IN  /\ Failed(p)
            /\ L # <<>> /\ BatchFailed(L[Len(L)]) /\ L[Len(L)].what = "remove"
            /\ Appended(p) # {}
            /\ Range(inv[p].list0) \subseteq Range(gatewayList)
            /\ Range(gatewayList) # Range(inv[p].list0)
            /\ DesiredSet(p) \subseteq Range(gatewayList)
            /\ Range(gatewayList) # DesiredSet(p)

\* C10: a response whose body parses and carries success: false, to the list read
\* or to an update, fails the sync, and nothing is requested after it.
C10_SuccessFalseFails ==
    \A p \in Procs :
        LET L == log[p]
        IN  \A k \in 1..Len(L) :
                IsRemote(L[k]) /\ ResOk(L[k].res) /\ L[k].res.body = "success_false" =>
                    k = Len(L) /\ Failed(p)

\* the same for updates alone
PatchSuccessFalseFails ==
    \A p \in Procs :
        LET L == log[p]
        IN  \A k \in 1..Len(L) :
                IsPatch(L[k]) /\ ResOk(L[k].res) /\ L[k].res.body = "success_false" =>
                    k = Len(L) /\ Failed(p)

\* the list an update request carries under its key
Carried(ev) == IF "append" \in ev.payload.keys THEN ev.payload.append ELSE ev.payload.remove

\* C11: every PATCH of the batched updater carries exactly one of the keys append
\* and remove, the key of its loop, with a non-empty list and nothing under the
\* other key; an empty toAdd sends no append request and an empty toRemove no
\* remove request.
C11_OneKeyNonEmpty ==
    \A p \in Procs :
        LET L == log[p]
        IN  \A k \in 1..Len(L) : IsBatch(L[k]) =>
                /\ L[k].payload.keys = {L[k].what}
                /\ Len(Carried(L[k])) >= 1
                /\ L[k].what = "append" => L[k].payload.remove = <<>> /\ inv[p].toAdd # <<>>
                /\ L[k].what = "remove" => L[k].payload.append = <<>> /\ inv[p].toRemove # <<>>

\* nothing to add and something to remove: the run succeeds on remove requests alone
C11_Witness ==
    \E p \in Procs :
        /\ Succeeded(p)
        /\ inv[p].toAdd = <<>> /\ inv[p].toRemove # <<>>
        /\ RequestsOf(p, "append") = <<>>
        /\ Len(RequestsOf(p, "remove")) = 1

\* the Synced-Prefix Records of an ASN, and the rows of every other ASN
SyncedOf(asn) == {row.prefix : row \in {x \in synced_prefixes : x.asn = asn}}
RowsOfOthers(asn) == {row \in synced_prefixes : row.asn # asn}

\* updateSyncedPrefixes has returned to syncASN
PersistDone(p) ==
    \/ inv[p].pc = "recordTime"
    \/ \E k \in 1..Len(log[p]) : log[p][k].what = "upsert"

\* C12: once updateSyncedPrefixes has returned without error (invocations do not
\* overlap) the rows of the ASN are the validated, deduplicated Desired Set of
\* the run, one row for each of its prefixes, whatever rows were there before
\* and however many insert chunks it took; the rows of other ASNs are the ones
\* the store started with.
C12_SyncedEqualsDesired ==
    \A p \in Procs : PersistDone(p) =>
        /\ SyncedOf(inv[p].table) = DesiredSet(p)
        /\ Cardinality(SyncedOf(inv[p].table)) = Len(inv[p].validDesired)
        /\ RowsOfOthers(inv[p].table) = {[asn |-> AS2, prefix |-> V6]}

\* 120 prefixes went in as chunks of 100 and 20 and replaced the row that was there
C12_Witness ==
    \E p \in Procs :
        /\ PersistDone(p)
        /\ Len(inv[p].validDesired) > insertBatchSize
        /\ Len(SelectSeq(log[p], LAMBDA ev : ev.what = "insert")) = 2
        /\ V6 \notin SyncedOf(inv[p].table)
        /\ Cardinality(SyncedOf(inv[p].table)) = BigN

\* C13: with the store handle, the account identifier, the list identifier or
\* one of the two credential values absent, the invocation has ended in failure
\* with no store query, no store write and no remote call made, and it makes no
\* second attempt.
C13_MissingConfigNoIO ==
    \A p \in Procs :
        inv[p].pc # "idle" /\ inv[p].env # FullEnv =>
            /\ inv[p].pc = "done"
            /\ inv[p].result = "error"
            /\ inv[p].error \in {"Database not initialized", "Missing Cloudflare API credentials"}
            /\ inv[p].entry = "fetch" => inv[p].http = 500
            /\ log[p] = <<>>

\* a well-formed ASN, every value set but API_KEY
C13_Witness ==
    \E p \in Procs :
        /\ inv[p].pc = "done" /\ inv[p].entry = "fetch"
        /\ inv[p].asn = Asn(AS1)
        /\ inv[p].env = [FullEnv EXCEPT !.API_KEY = FALSE]
        /\ inv[p].error = "Missing Cloudflare API credentials"
        /\ log[p] = <<>>

AllValid(list) == \A k \in 1..Len(list) : isValidCIDR(list[k])

\* C14 as stated: in a run that computes the diff, every string that takes part
\* in it, from the Desired Set and from the Remote Set, satisfies isValidCIDR.
C14_DiffInputsValidated ==
    \A p \in Procs : Diffed(p) =>
        AllValid(inv[p].validDesired) /\ AllValid(inv[p].existing)

\* C14, amended: in a run that computes the diff, every string of the Desired
\* Set that takes part in it satisfies isValidCIDR, and toAdd and every append
\* request hold only such strings; the strings of the Remote Set take part as
\* the list read returned them, and toRemove holds those of them that the
\* validated Desired Set lacks.
C14_DesiredSideValidated ==
    \A p \in Procs : Diffed(p) =>
        /\ AllValid(inv[p].validDesired)
        /\ Range(inv[p].toAdd) \subseteq Range(inv[p].validDesired)
        /\ \A k \in 1..Len(log[p]) :
              Range(log[p][k].payload.append) \subseteq Range(inv[p].toAdd)
        /\ Range(inv[p].toRemove) = Range(inv[p].existing) \ Range(inv[p].validDesired)

\* an invalid row was filtered from the desired side while the same string, read
\* from the remote list, went through the diff and out in a remove request
C14_Witness ==
    \E p \in Procs :
        /\ Diffed(p)
        /\ NoLen \in Range(inv[p].desired)
        /\ NoLen \in Range(inv[p].existing) /\ NoLen \in Range(inv[p].toRemove)
        /\ \E k \in 1..Len(log[p]) :
              NoLen \in Range(log[p][k].payload.remove) /\ Accepted(log[p][k].res)

\* the last entry of an invocation's trace is a store write of this kind that failed
FailedAt(p, what) ==
    /\ Failed(p) /\ log[p] # <<>>
    /\ LET last == log[p][Len(log[p])]
       IN  IsWrite(last) /\ last.what = what /\ last.outcome = "threw"

\* the timestamp the store holds for an ASN, 0 for none
TimestampOf(asn) ==
    LET rows == {row \in sync_state : row.asn = asn}
    IN  IF rows = {} THEN 0 ELSE (CHOOSE row \in rows : TRUE).last_run

\* the rows a run has inserted when its insert loop stands at offset i
InsertedUpTo(p) == Range(SubSeq(inv[p].validDesired, 1, inv[p].i))

\* a run that failed in the insert chunk at offset i leaves the rows of the
\* chunks before it (none, when it was the first) and the timestamp it found
TornWrite ==
    \A p \in Procs : FailedAt(p, "insert") =>
        /\ SyncedOf(inv[p].table) = InsertedUpTo(p)
        /\ inv[p].i = 0 => SyncedOf(inv[p].table) = {}
        /\ TimestampOf(inv[p].table) = inv[p].lastRun
        /\ \A k \in 1..Len(log[p]) : log[p][k].what # "upsert"

\* the Synced-Prefix Records change only in the DELETE or an INSERT chunk of a run
RowsChangeOnlyInPersist ==
    synced_prefixes' # synced_prefixes =>
        \E p \in Procs :
            /\ inv[p].pc \in {"delete", "insert"}
            /\ Len(log'[p]) = Len(log[p]) + 1
            /\ IsWrite(log'[p][Len(log'[p])])

\* C16: the DELETE and the INSERT chunks are separate statements. A store failure
\* after the DELETE and before the first chunk is in leaves the ASN with zero
\* rows; a failure in chunk k leaves the rows of chunks 1..k-1; the timestamp
\* is not written in that run; and the rows stay as they are until a later run
\* reaches its own DELETE.
C16_DeleteInsertNotAtomic == []TornWrite /\ [][RowsChangeOnlyInPersist]_vars

\* the second chunk of 120 prefixes failed: 100 rows, not the desired 120, and
\* not the row the store held before
C16_Witness ==
    \E p \in Procs :
        /\ FailedAt(p, "insert")
        /\ inv[p].i = insertBatchSize
        /\ Cardinality(SyncedOf(inv[p].table)) = insertBatchSize
        /\ SyncedOf(inv[p].table) # DesiredSet(p)
        /\ V6 \notin SyncedOf(inv[p].table)
        /\ TimestampOf(inv[p].table) = 0

\* the run has read the timestamp it started from
LastRunRead(p) ==
    \E k \in 1..Len(log[p]) : log[p][k].what = "last_run" /\ log[p][k].outcome = "returned"

\* the insert chunks a Desired Set of n prefixes takes
IsChunkCount(count, n) ==
    count * insertBatchSize >= n /\ (count - 1) * insertBatchSize < n

\* every stage before position k of the trace has done its work: each statement
\* and request returned or was a rate-limited attempt that was retried, every
\* batch was accepted, the probe was accepted when there was one to make, and
\* the DELETE and every INSERT chunk went through
StagesDoneBefore(p, k) ==
    LET L == log[p]
        r == inv[p]
        inserts == {j \in 1..(k - 1) : L[j].what = "insert" /\ L[j].outcome = "returned"}
    IN  /\ \A j \in 1..(k - 1) : L[j].outcome \in {"returned", "retry"}
        /\ \A n \in 1..Len(r.addBatches) : BatchDoneBefore(p, k, "append", n)
        /\ \A n \in 1..Len(r.removeBatches) : BatchDoneBefore(p, k, "remove", n)
        /\ r.toAdd # <<>> => \E j \in 1..(k - 1) : L[j].what = "probe" /\ Accepted(L[j].res)
        /\ \E j \in 1..(k - 1) : L[j].what = "delete" /\ L[j].outcome = "returned"
        /\ IsChunkCount(Cardinality(inserts), Len(r.validDesired))

\* the remote list after every batch of the run: what it was, with toAdd on and
\* toRemove off
ListFullyUpdated(p) ==
    Range(gatewayList) = (Range(inv[p].list0) \cup Range(inv[p].toAdd)) \ Range(inv[p].toRemove)

\* C17: the timestamp of an ASN is written only by the upsert that ends a run,
\* after every earlier stage has succeeded. When the upsert fails the sync is
\* reported as failed, with the remote list and the Synced-Prefix Records fully
\* updated and the timestamp the run found left as it was.
C17_TimestampLast ==
    \A p \in Procs :
        LET L == log[p]
            r == inv[p]
        IN  /\ \A k \in 1..Len(L) : L[k].what = "upsert" =>
                  /\ k = Len(L)
                  /\ r.pc = "done"
                  /\ StagesDoneBefore(p, k)
                  /\ ListFullyUpdated(p)
                  /\ SyncedOf(r.table) = DesiredSet(p)
                  /\ L[k].outcome = "returned" =>
                        Succeeded(p) /\ TimestampOf(r.table) = clock
                  /\ L[k].outcome = "threw" =>
                        /\ Failed(p) /\ r.error = "Failed to record sync time"
                        /\ r.entry = "fetch" => r.http = 500
                        /\ TimestampOf(r.table) = r.lastRun
            /\ (LastRunRead(p) /\ \A k \in 1..Len(L) : L[k].what # "upsert") =>
                  TimestampOf(r.table) = r.lastRun

\* a second run changed the list and the rows, then failed in the upsert: the
\* timestamp is the first run's
C17_Witness ==
    \E p \in Procs :
        /\ FailedAt(p, "upsert")
        /\ inv[p].lastRun = 1 /\ clock = 2
        /\ TimestampOf(inv[p].table) = 1
        /\ SyncedOf(inv[p].table) = DesiredSet(p)
        /\ ListFullyUpdated(p)

IsProbe(ev) == ev.op = "PATCH" /\ ev.what = "probe"

\* the positions of the probe requests in an invocation's trace
ProbesOf(p) == {k \in 1..Len(log[p]) : IsProbe(log[p][k])}

\* the store rows and the timestamp are the ones the run found
StoreUntouched(p) ==
    /\ \A k \in 1..Len(log[p]) : ~IsWrite(log[p][k])
    /\ TimestampOf(inv[p].table) = inv[p].lastRun
    /\ clock = 1 => synced_prefixes = {[asn |-> AS1, prefix |-> V6], [asn |-> AS2, prefix |-> V6]}

\* C18: the probe is made exactly when toAdd is non-empty: one append request
\* carrying the first element of toAdd alone, after every append and remove batch
\* was accepted and before any store write. A probe that fails, a 429 included,
\* is not repeated and fails the sync there: the remote list is fully updated,
\* the Synced-Prefix Records and the timestamp are as the run found them, and no
\* further request is sent.
C18_ProbeAfterBatches ==
    \A p \in Procs :
        LET L == log[p]
            r == inv[p]
        IN  /\ Cardinality(ProbesOf(p)) <= 1
            /\ r.pc = "probe" => r.toAdd # <<>> /\ ProbesOf(p) = {}
            /\ r.pc \in {"delete", "insert", "recordTime"} \/ (\E k \in 1..Len(L) : IsWrite(L[k])) =>
                  (r.toAdd # <<>> <=> ProbesOf(p) # {})
            /\ \A k \in ProbesOf(p) :
                  /\ r.toAdd # <<>>
                  /\ L[k].payload = Payload("append", <<r.toAdd[1]>>)
                  /\ \A n \in 1..Len(r.addBatches) : BatchDoneBefore(p, k, "append", n)
                  /\ \A n \in 1..Len(r.removeBatches) : BatchDoneBefore(p, k, "remove", n)
                  /\ \A j \in 1..k : ~IsWrite(L[j])
                  /\ ListFullyUpdated(p)
                  /\ ~Accepted(L[k].res) =>
                        /\ k = Len(L)
                        /\ Failed(p) /\ r.error = "Test PATCH failed"
                        /\ StoreUntouched(p)

\* appends and removes went through, the probe was answered 429: the sync has
\* failed with the list changed and the store as it was
C18_Witness ==
    \E p \in Procs :
        LET L == log[p]
        IN  /\ Failed(p) /\ L # <<>>
            /\ IsProbe(L[Len(L)]) /\ L[Len(L)].res.status = 429
            /\ inv[p].toAdd # <<>> /\ inv[p].toRemove # <<>>
            /\ ListFullyUpdated(p) /\ gatewayList # inv[p].list0
            /\ StoreUntouched(p)
            /\ SyncedOf(inv[p].table) # DesiredSet(p)

Running(p) == inv[p].pc \notin {"idle", "done"}

\* a sync never ends on a rate-limited batch: after a 429 or its delay comes the
\* same request again, however many attempts there have been
NeverEndsOn429 ==
    \A p \in Procs : inv[p].pc = "done" /\ log[p] # <<>> =>
        /\ ~(IsBatch(LastEv(p)) /\ LastEv(p).res.status = 429)
        /\ LastEv(p).op # "delay"

\* from some point on no batch of the invocation slot is answered 429
RateLimitingEnds(p) == <>[](inv[p].pc # "delay")

\* every sync ends, in success or in failure
Terminates(p) == [](Running(p) => <>(inv[p].pc = "done"))

TerminatesAnyway == \A p \in Procs : Terminates(p)

\* the list read of the run was answered with the list
ReadTheList(p) ==
    \E k \in 1..Len(log[p]) : log[p][k].op = "GET" /\ Accepted(log[p][k].res)

\* two invocations of one ASN that both returned success after reading the same
\* Remote Set
BothSucceededOnSameRead(p, q) ==
    /\ p # q
    /\ Succeeded(p) /\ Succeeded(q)
    /\ inv[p].table = inv[q].table
    /\ ReadTheList(p) /\ ReadTheList(q)
    /\ inv[p].existing = inv[q].existing

\* nothing holds a request back while another invocation is at an await
NotExcluded ==
    \A p, q \in Procs :
        p # q /\ Running(q) /\ inv[p].pc = "idle" /\ clock < MaxRuns =>
            ENABLED InvokeOverlap(p)

\* what the other invocation's batches leave on the list and take off it
RaceOutcome ==
    \A p, q \in Procs : BothSucceededOnSameRead(p, q) =>
        LET R == Range(inv[p].existing)
            L == Range(gatewayList)
        IN  /\ L \ DesiredSet(p) = (DesiredSet(q) \ DesiredSet(p)) \ R
            /\ DesiredSet(p) \ L = (DesiredSet(p) \cap R) \ DesiredSet(q)

\* C19: invocations for one ASN are not kept apart, a request is served while
\* another invocation is running. When two of them read the same Remote Set R
\* and both return success, the list is left differing from the Desired Set D of
\* the one by exactly what the other's batches did: it holds the prefixes that
\* only the other's rows had and R lacked (a prefix the change of rows removed
\* is appended by the other), and it lacks the prefixes of D in R that the
\* other's rows did not have (a prefix the change added is removed by the other).
C19_OverlapRace == NotExcluded /\ RaceOutcome

\* the table changed between the two loads, both invocations read the same list
\* and returned success, and the list is not the Desired Set of the one that
\* loaded the newer rows: it holds a prefix the other appended and lacks one the
\* other removed
C19_Witness ==
    \E p, q \in Procs :
        /\ BothSucceededOnSameRead(p, q)
        /\ inv[p].desired = tables[AS1] /\ inv[q].desired # inv[p].desired
        /\ inv[p].toAdd # <<>> /\ inv[p].toRemove # <<>>
        /\ Range(gatewayList) # DesiredSet(p)
        /\ Range(inv[q].toAdd) \cap (Range(gatewayList) \ DesiredSet(p)) # {}
        /\ Range(inv[q].toRemove) \cap (DesiredSet(p) \ Range(gatewayList)) # {}

\* two invocations of one ASN that both returned success
BothSucceeded(p, q) ==
    /\ p # q
    /\ Succeeded(p) /\ Succeeded(q)
    /\ inv[p].table = inv[q].table

\* the run was not overlapped: the only invocation so far, or the second one,
\* started when the first had returned success
RanAlone(p) == clock = 1 \/ (clock = 2 /\ inv[p].afterSync)

\* C20: the DELETE and the INSERT OR IGNORE chunks of two overlapping syncs of one
\* ASN interleave freely. When both return success the rows of the ASN lie within
\* the union of the two Desired Sets and hold all of at least one of them; a
\* sync that ran alone leaves exactly its own Desired Set.
C20_OverlappingWrites ==
    /\ \A p, q \in Procs : BothSucceeded(p, q) =>
          /\ SyncedOf(inv[p].table) \subseteq DesiredSet(p) \cup DesiredSet(q)
          /\ \/ DesiredSet(p) \subseteq SyncedOf(inv[p].table)
             \/ DesiredSet(q) \subseteq SyncedOf(inv[p].table)
    /\ \A p \in Procs : Succeeded(p) /\ RanAlone(p) =>
          SyncedOf(inv[p].table) = DesiredSet(p)

\* one invocation's DELETE came right after the other's, the inserts after both:
\* both returned success and the rows are the union of the two Desired Sets,
\* which is neither of them
C20_Witness ==
    \E p, q \in Procs :
        /\ BothSucceeded(p, q)
        /\ DesiredSet(p) # DesiredSet(q)
        /\ SyncedOf(inv[p].table) = DesiredSet(p) \cup DesiredSet(q)
        /\ SyncedOf(inv[p].table) # DesiredSet(p)
        /\ SyncedOf(inv[p].table) # DesiredSet(q)

====
